---- MODULE Spec2Model ----
(***************************************************************************)
(* A model of OpenRecon's trust-boundary fetch client                      *)
(* (backend/app/utils/safe_http.py), of its probe invoker and scan         *)
(* orchestrator (backend/app/main.py, run_module_safely and                *)
(* _orchestrate_full_scan), of the probes that fetch                       *)
(* (backend/app/modules) with what reaches their caller, of the            *)
(* connections the probes of a scan open, of scan_ports                    *)
(* (backend/app/modules/port_recon.py) and of validate_target              *)
(* (backend/app/utils/input_validator.py).                                 *)
(*                                                                         *)
(* The network is the environment: every call of the resolver and every    *)
(* request may be answered differently, so the resolver may rebind a name  *)
(* between two calls and a server may redirect, stall or fail at any hop.  *)
(***************************************************************************)
EXTENDS Integers, Sequences, FiniteSets, TLC

VARIABLES
    \* ---- safe_request: arguments
    method,             \* "GET" | "HEAD"
    url,                \* the caller's URL
    extra_headers,      \* the caller's headers, a dict (None is the empty one)
    \* ---- safe_request: locals
    pc,                 \* position in safe_request
    attempt,            \* for attempt in range(retries)
    redirects_left,
    current_url,
    addr_info,          \* what socket.getaddrinfo returned in this hop
    target_ip,          \* what _resolve_and_validate returned in this hop
    headers,            \* the headers of this hop's request
    response,           \* the response of this hop (status line and headers)
    content_chunks,     \* sizes of the chunks kept
    total_size,
    result,             \* how safe_request ended: a dict or a SafeHTTPError
    \* ---- safe_request: what the network saw (observation only)
    conn_ip,            \* address the request of this hop was sent to
    nreq,               \* requests sent in this attempt
    nresolve,           \* resolver calls made in this hop
    nres,               \* resolver calls made in this attempt
    body_read,          \* chunks taken from response.aiter_bytes() in this hop
    sleeps,             \* the delays asyncio.sleep was called with
    raised,             \* class of the last exception that reached the handlers
    escaped,            \* class of the exception that left safe_request
    \* ---- run_module_safely
    ipc,                \* position in run_module_safely
    module_name,
    probe_end,          \* how the probe operation ended
    ret,                \* how run_module_safely ended
    elapsed,            \* seconds since the probe operation was called
    loop_blocked,       \* seconds the event loop stays blocked by another task
    \* ---- _orchestrate_full_scan
    spc,                \* position in _orchestrate_full_scan
    domain,             \* its argument
    scan_i,             \* which run_module_safely statement is next
    res,                \* the locals dns_res .. net_res, by probe name
    full_data,          \* the aggregate, a dict
    invoked,            \* times each probe was passed to run_module_safely
    ends,               \* how each probe operation ended
    usual,              \* the environment: how probes end as a rule
    deviations,         \* the environment: probes that ended otherwise
    late,               \* cancelled operations that completed afterwards
    \* ---- a probe that fetches, and what its caller gets
    ppc,                \* position in the probe and in its caller
    probe,              \* the probe function
    via,                \* "scan": run_module_safely; "endpoint": a /scan/ route
    fetch_k,            \* iteration of the probe's loop
    sub,                \* "head" | "get": the request of this iteration
    fetched,            \* how the last safe_get/safe_head call ended
    pout,               \* how the probe ended
    visible,            \* what the caller received for the probe
    logged,             \* what was written to the log
    \* ---- _validate_ip
    vpc,                \* position in _validate_ip
    ip_str,             \* its argument
    verdict,            \* "ok" when it returned, else the message it raised
    \* ---- validate_target on the same literal
    tpc,                \* position in validate_target
    accepted,           \* the ValidationResult it returned
    \* ---- the connections the probes of a full scan open
    rpc,                \* position in the scan
    reach_i,            \* which probe of the scan connects next
    reach_k,            \* which of its connections
    conn,               \* the connection just attempted
    \* ---- scan_ports
    qpc,                \* position in scan_ports
    tasks,              \* the ports whose check_port coroutine object exists
    port_i,             \* index in tasks of the loop of line 51
    running,            \* ports whose check_port has begun and not ended
    open_ports,         \* results["open_ports"]
    \* ---- several calls of safe_request on one event loop
    cpc,                \* where each call is suspended
    frame,              \* the local variables, by the frame they live in
    script,             \* the environment: what the network answers each call
    taken,              \* how many of its answers each call has had
    outcome,            \* how each call ended
    \* ---- one call of safe_request as its caller counts it (observation only)
    nsent               \* requests sent since the call began, over all attempts

args == <<method, url, extra_headers>>
hopVars == <<addr_info, target_ip, headers, response, content_chunks, total_size,
             conn_ip, nresolve, body_read>>
fetchVars == <<args, pc, attempt, redirects_left, current_url, hopVars, result,
               nreq, nres, sleeps, raised, escaped>>
invokeVars == <<ipc, module_name, probe_end, ret, elapsed, loop_blocked>>
scanVars == <<spc, domain, scan_i, res, full_data, invoked, ends, usual, deviations,
              late>>
probeVars == <<ppc, probe, via, fetch_k, sub, fetched, pout, visible, logged>>
validateVars == <<vpc, ip_str, verdict, tpc, accepted>>
callVars == <<nsent>>
reachVars == <<rpc, reach_i, reach_k, conn>>
portVars == <<qpc, tasks, port_i, running, open_ports>>
loopVars == <<cpc, frame, script, taken, outcome>>
otherVars == <<reachVars, portVars, loopVars>>
nonFetchVars == <<invokeVars, scanVars, probeVars, validateVars, otherVars>>
nonInvokeVars == <<fetchVars, scanVars, probeVars, validateVars, callVars, otherVars>>
nonScanVars == <<fetchVars, invokeVars, probeVars, validateVars, callVars, otherVars>>
nonProbeVars == <<fetchVars, invokeVars, scanVars, validateVars, callVars, otherVars>>
nonValidateVars == <<fetchVars, invokeVars, scanVars, probeVars, callVars, otherVars>>
nonReachVars == <<fetchVars, invokeVars, scanVars, probeVars, validateVars, callVars,
                  portVars, loopVars>>
nonPortVars == <<fetchVars, invokeVars, scanVars, probeVars, validateVars, callVars,
                 reachVars, loopVars>>
nonLoopVars == <<fetchVars, invokeVars, scanVars, probeVars, validateVars, callVars,
                 reachVars, portVars>>
vars == <<fetchVars, invokeVars, scanVars, probeVars, validateVars, callVars, otherVars>>

-----------------------------------------------------------------------------
(* Constants of safe_http.py *)

MAX_RESPONSE_SIZE == 10485760
MAX_REDIRECTS == 3
retries == 3
base_delay == 1

(* Bounds of the model *)
MaxAddrs == 2       \* candidates in one resolver answer
MaxChunks == 3      \* chunks one response body arrives in
MaxOverrun == 2     \* seconds past the deadline a call is followed
MaxBlock == 3       \* seconds one synchronous call of another task takes
MaxDeviations == 1  \* probes of one scan that end otherwise than the rest
MaxLate == 1        \* cancelled operations of one scan that complete later
MaxAnswers == 2     \* answers of the network that differ from a plain 200, per call

-----------------------------------------------------------------------------
(* Addresses: IPv4 literals as four octets.                                *)

NoAddr == <<>>

PublicA == <<93, 184, 216, 34>>
PublicB == <<8, 8, 8, 8>>
PrivateA == <<10, 0, 0, 5>>
LoopbackA == <<127, 0, 0, 1>>
LinkLocalA == <<169, 254, 169, 254>>
MulticastA == <<224, 0, 0, 1>>
ReservedA == <<240, 0, 0, 1>>
SharedA == <<100, 64, 0, 1>>

Addrs == {PublicA, PublicB, PrivateA, LoopbackA, LinkLocalA, MulticastA,
          ReservedA, SharedA}

(* ipaddress.IPv4Address properties read by _validate_ip *)
is_private(ip) ==
    LET a == ip[1]  b == ip[2]  c == ip[3]  d == ip[4] IN
    \/ a = 0
    \/ a = 10
    \/ a = 127
    \/ a = 169 /\ b = 254
    \/ a = 172 /\ b \in 16..31
    \/ a = 192 /\ b = 0 /\ c = 0 /\ d \in 0..7
    \/ a = 192 /\ b = 0 /\ c = 0 /\ d \in 170..171
    \/ a = 192 /\ b = 0 /\ c = 2
    \/ a = 192 /\ b = 168
    \/ a = 198 /\ b \in 18..19
    \/ a = 198 /\ b = 51 /\ c = 100
    \/ a = 203 /\ b = 0 /\ c = 113
    \/ a \in 240..255

is_loopback(ip) == ip[1] = 127
is_link_local(ip) == ip[1] = 169 /\ ip[2] = 254
is_multicast(ip) == ip[1] \in 224..239
is_reserved(ip) == ip[1] \in 240..255
is_global(ip) == ~(ip[1] = 100 /\ ip[2] \in 64..127) /\ ~is_private(ip)

ErrInternal == "Blocked request to internal/private IP"
ErrNonGlobal == "Blocked request to non-global IP"
ErrNoResolve == "Could not resolve hostname"
ErrResolution == "Resolution failed"
ErrParse == "Invalid IPv6 URL"
ErrNoValid == "No valid IPs found for resolution"
ErrNoHost == "Invalid URL: missing hostname"
ErrMaxRedirects == "Max redirects exceeded"
ErrAfterRetries == "Request failed after 3 attempts"

(* _validate_ip: "ok" when it returns, else the message of the             *)
(* SafeHTTPError it raises.                                                *)
validate_ip_listed_only(ip) ==
    IF is_private(ip) \/ is_loopback(ip) \/ is_link_local(ip)
       \/ is_multicast(ip) \/ is_reserved(ip)
    THEN ErrInternal
    ELSE "ok"

validate_ip_loopback_only(ip) ==
    IF is_loopback(ip) THEN ErrInternal ELSE "ok"

validate_ip(ip) ==
    IF is_private(ip) \/ is_loopback(ip) \/ is_link_local(ip)
       \/ is_multicast(ip) \/ is_reserved(ip)
    THEN ErrInternal
    ELSE IF ~is_global(ip) THEN ErrNonGlobal
    ELSE "ok"

(* socket.getaddrinfo: the environment's answer, a list of candidates, a   *)
(* socket.gaierror, or another exception (a UnicodeError for a name the    *)
(* idna codec refuses).                                                    *)
GaiError == <<"gaierror">>
OtherError == <<"UnicodeError">>
AddrLists == UNION {[1..n -> Addrs] : n \in 0..MaxAddrs}
ResolverAnswers == AddrLists \cup {GaiError, OtherError}

(* _resolve_and_validate on one answer of the resolver: the loop body      *)
(* validates a candidate and returns it, so only the first candidate is    *)
(* ever looked at; a SafeHTTPError of _validate_ip leaves the function.    *)
resolve_and_validate(answer) ==
    IF answer = GaiError THEN [ok |-> FALSE, ip |-> NoAddr, msg |-> ErrNoResolve]
    ELSE IF answer = OtherError
    THEN [ok |-> FALSE, ip |-> NoAddr, msg |-> ErrResolution]
    ELSE IF Len(answer) = 0
    THEN [ok |-> FALSE, ip |-> NoAddr, msg |-> ErrNoValid]
    ELSE IF validate_ip(answer[1]) = "ok"
    THEN [ok |-> TRUE, ip |-> answer[1], msg |-> "ok"]
    ELSE [ok |-> FALSE, ip |-> NoAddr, msg |-> validate_ip(answer[1])]

-----------------------------------------------------------------------------
(* URLs as urlparse splits them.  host = "" stands for parsed.hostname     *)
(* being None, scheme = "" for a URL written without a scheme, host = "["  *)
(* for a URL with an unclosed bracket, on which urlparse raises            *)
(* ValueError.                                                             *)

U(s, h, p) == [scheme |-> s, host |-> h, path |-> p]
NoUrl == U("", "", "")

CallerUrls == {U("https", "a.test", "/"), U("", "a.test", "/x"), U("http", "", "/"),
               U("http", "[", "/")}

(* The Location header of a response: absent, a path starting with "/",    *)
(* a relative reference, or an absolute http(s) URL.                       *)
Loc(k, s, h, p) == [kind |-> k, scheme |-> s, host |-> h, path |-> p]
NoLocation == Loc("none", "", "", "")
Locations == {NoLocation,
              Loc("path", "", "", "/x"),
              Loc("rel", "", "", "y"),
              Loc("abs", "https", "b.test", "/"),
              Loc("abs", "http", "", "/x"),
              Loc("abs", "http", "[", "/")}

Resp(st, l) == [status |-> st, location |-> l]
NoResponse == Resp(0, NoLocation)
Responses == {Resp(200, NoLocation)} \cup {Resp(301, l) : l \in Locations}

(* httpx.Response.is_redirect: a 3xx status *)
is_redirect(r) == r.status \in 300..399

(* scheme, lines 89-92 *)
SchemeOf(u) == IF u.scheme = "" THEN "http" ELSE u.scheme

(* "/" + next_location for a relative reference, line 139 *)
Slash(p) == IF p = "y" THEN "/y" ELSE p

(* next_location as the next hop's URL, lines 136-141 *)
NextUrlKeepsPath(u, l) ==
    IF l.kind \in {"path", "rel"} THEN U(SchemeOf(u), u.host, u.path)
    ELSE U(l.scheme, l.host, l.path)

NextUrl(u, l) ==
    IF l.kind = "path" THEN U(SchemeOf(u), u.host, l.path)
    ELSE IF l.kind = "rel" THEN U(SchemeOf(u), u.host, Slash(l.path))
    ELSE U(l.scheme, l.host, l.path)

(* request_url, lines 95-105: the validated address in place of the name *)
RequestUrl(u, ip) == [scheme |-> SchemeOf(u), host |-> ip, path |-> u.path]

(* The address the connection of this hop goes to: the host of             *)
(* request_url is an IP literal, so the client connects to it as it is.    *)
ConnectAddressByName(ip, fresh) == fresh

ConnectAddress(ip, fresh) == ip

-----------------------------------------------------------------------------
(* Exceptions.  The httpx classes, each with the set of classes it is an   *)
(* instance of; SafeHTTPError derives from Exception alone.                *)

SendErrors == {"ConnectError", "ConnectTimeout", "ReadTimeout", "WriteTimeout",
               "PoolTimeout", "ReadError", "WriteError", "RemoteProtocolError",
               "UnsupportedProtocol"}
ReadErrors == {"ReadTimeout", "ReadError", "RemoteProtocolError"}

Bases(e) ==
    {e} \cup
    (IF e \in {"ConnectTimeout", "ReadTimeout", "WriteTimeout", "PoolTimeout"}
        THEN {"TimeoutException", "TransportError"}
     ELSE IF e \in {"ConnectError", "ReadError", "WriteError", "CloseError"}
        THEN {"NetworkError", "TransportError"}
     ELSE IF e \in {"RemoteProtocolError", "LocalProtocolError"}
        THEN {"ProtocolError", "TransportError"}
     ELSE IF e = "UnsupportedProtocol" THEN {"TransportError"}
     ELSE {})
    \cup {"Exception"}

(* the classes of the first except clause, line 155 *)
RetryableAny(e) == TRUE

RetryableAllTransport(e) == "TransportError" \in Bases(e)

Retryable(e) ==
    Bases(e) \cap {"ConnectError", "ReadTimeout", "PoolTimeout", "NetworkError",
                   "RemoteProtocolError"} # {}

(* the delay of the backoff sleep, line 157 *)
BackoffConstant(k) == base_delay

Backoff(k) == base_delay * (k + 1)

(* whether another attempt follows, line 156 *)
MayRetryOnce(k) == k < 1

MayRetryAgain(k) == k < retries

MayRetry(k) == k < retries - 1

Ok(st, n, u) == [kind |-> "ok", status |-> st, content_len |-> n, url |-> u, msg |-> ""]
Err(m) == [kind |-> "err", status |-> 0, content_len |-> 0, url |-> NoUrl, msg |-> m]
NoResult == [kind |-> "none", status |-> 0, content_len |-> 0, url |-> NoUrl, msg |-> ""]

(* The class of the exception that leaves safe_request when the except    *)
(* clauses, lines 155-164, end the call on exception e.                    *)
LeavesUnwrapped(e) == IF Retryable(e) THEN "SafeHTTPError" ELSE e

Leaves(e) ==
    IF Retryable(e) THEN "SafeHTTPError"
    ELSE IF e = "SafeHTTPError" THEN e
    ELSE "SafeHTTPError"

(* The except clauses, lines 155-164, on exception e with message m. *)
Except(e, m) ==
    /\ raised' = e
    /\ IF Retryable(e)
       THEN IF MayRetry(attempt)
            THEN pc' = "sleep" /\ result' = result /\ escaped' = escaped
            ELSE pc' = "done" /\ result' = Err(ErrAfterRetries)
                 /\ escaped' = Leaves(e)
       ELSE pc' = "done" /\ result' = Err(m) /\ escaped' = Leaves(e)

(* whether exception e is followed by the backoff sleep and another        *)
(* attempt, lines 155-158; the locals of the hop are dead from there on.   *)
Retrying(e) == Retryable(e) /\ MayRetry(attempt)

-----------------------------------------------------------------------------
(* Request headers: a Python dict, a set of <<key, value>> pairs with at   *)
(* most one pair for a key; keys are compared as they are written.         *)

USER_AGENT == "Mozilla/5.0 (Windows NT 10.0; Win64; x64) AppleWebKit/537.36 (KHTML, like Gecko) Chrome/91.0.4472.124 Safari/537.36"

Keys(d) == {kv[1] : kv \in d}

(* dict.update and item assignment *)
Update(d, e) == {kv \in d : kv[1] \notin Keys(e)} \cup e

(* what the caller may pass as headers *)
ExtraHeaders == {{},
                 {<<"Host", "evil.test">>},
                 {<<"host", "evil.test">>}}

CallerArgs == {"GET", "HEAD"} \X CallerUrls \X ExtraHeaders

(* headers, lines 81-86 *)
RequestHeaders(u, extra) ==
    LET base == {<<"User-Agent", USER_AGENT>>, <<"Host", u.host>>} IN
    IF extra # {}
    THEN Update(Update(base, extra), {<<"Host", u.host>>})
    ELSE base

-----------------------------------------------------------------------------
(* safe_request *)

RECURSIVE Sum(_)
Sum(q) == IF Len(q) = 0 THEN 0 ELSE q[1] + Sum(Tail(q))

ChunkSizes == {1, MAX_RESPONSE_SIZE}

(* The locals of one hop are written again before they are read in the    *)
(* next hop; the model clears them where the hop ends.                     *)
ClearHop ==
    /\ addr_info' = <<>>
    /\ target_ip' = NoAddr
    /\ headers' = {}
    /\ response' = NoResponse
    /\ content_chunks' = <<>>
    /\ total_size' = 0
    /\ conn_ip' = NoAddr
    /\ nresolve' = 0
    /\ body_read' = 0

InitFetch ==
    /\ \E a \in CallerArgs :
         method = a[1] /\ url = a[2] /\ extra_headers = a[3]
    /\ pc = "attempt"
    /\ attempt = 0
    /\ redirects_left = MAX_REDIRECTS
    /\ current_url = url
    /\ addr_info = <<>>
    /\ target_ip = NoAddr
    /\ headers = {}
    /\ response = NoResponse
    /\ content_chunks = <<>>
    /\ total_size = 0
    /\ result = NoResult
    /\ conn_ip = NoAddr
    /\ nreq = 0
    /\ nresolve = 0
    /\ nres = 0
    /\ body_read = 0
    /\ sleeps = <<>>
    /\ raised = "none"
    /\ escaped = "none"

FetchIdle ==
    /\ method = "GET"
    /\ url = U("https", "a.test", "/")
    /\ extra_headers = {}
    /\ pc = "idle"
    /\ attempt = 0
    /\ redirects_left = MAX_REDIRECTS
    /\ current_url = url
    /\ addr_info = <<>>
    /\ target_ip = NoAddr
    /\ headers = {}
    /\ response = NoResponse
    /\ content_chunks = <<>>
    /\ total_size = 0
    /\ result = NoResult
    /\ conn_ip = NoAddr
    /\ nreq = 0
    /\ nresolve = 0
    /\ nres = 0
    /\ body_read = 0
    /\ sleeps = <<>>
    /\ raised = "none"
    /\ escaped = "none"

(* lines 67-71: an attempt begins with a new client, the full redirect     *)
(* budget and the caller's URL                                             *)
StartAttemptCarriesOver ==
    /\ pc = "attempt"
    /\ nreq' = 0
    /\ nres' = 0
    /\ pc' = "loop"
    /\ UNCHANGED <<args, attempt, redirects_left, current_url, hopVars, result,
                   sleeps, raised, escaped, nonFetchVars>>

StartAttempt ==
    /\ pc = "attempt"
    /\ redirects_left' = MAX_REDIRECTS
    /\ current_url' = url
    /\ nreq' = 0
    /\ nres' = 0
    /\ pc' = "loop"
    /\ UNCHANGED <<args, attempt, hopVars, result, sleeps, raised, escaped, nonFetchVars>>

(* the test of the while loop, line 73 *)
LoopGuardPositive(left) == left > 0

LoopGuard(left) == left >= 0

(* lines 73-79 and 153: the loop test, the parse of current_url and the    *)
(* resolution; all synchronous.                                            *)
Hop ==
    /\ pc = "loop"
    /\ IF ~LoopGuard(redirects_left)
       THEN /\ Except("SafeHTTPError", ErrMaxRedirects)
            /\ UNCHANGED <<addr_info, target_ip, nresolve, nres>>
       ELSE IF current_url.host = "["
       THEN /\ Except("ValueError", ErrParse)
            /\ UNCHANGED <<addr_info, target_ip, nresolve, nres>>
       ELSE IF current_url.host = ""
       THEN /\ Except("SafeHTTPError", ErrNoHost)
            /\ UNCHANGED <<addr_info, target_ip, nresolve, nres>>
       ELSE \E answer \in ResolverAnswers :
              LET r == resolve_and_validate(answer) IN
              /\ addr_info' = answer
              /\ nresolve' = nresolve + 1
              /\ nres' = nres + 1
              /\ target_ip' = r.ip
              /\ IF r.ok
                 THEN pc' = "send" /\ UNCHANGED <<result, raised, escaped>>
                 ELSE Except("SafeHTTPError", r.msg)
    /\ UNCHANGED <<args, attempt, redirects_left, current_url, headers, response,
                   content_chunks, total_size, conn_ip, body_read, nreq, sleeps,
                   nonFetchVars>>

(* The address the connection of a hop goes to: the host of request_url    *)
(* is the IP literal target_ip, so the client connects to it as it is.     *)
(* (A client given the name would resolve again and could get any answer.) *)
ConnectByName(ip) == Addrs

ConnectAddresses(ip) == {ip}

(* lines 81-110: the request goes to request_url; the network answers with *)
(* a response or with a transport error.  The resolver's answer, a local   *)
(* of _resolve_and_validate, is kept until here and no longer.             *)
Send ==
    /\ pc = "send"
    /\ \/ \E r \in Responses :
            /\ headers' = RequestHeaders(current_url, extra_headers)
            /\ conn_ip' \in ConnectAddresses(target_ip)
            /\ response' = r
            /\ pc' = "read"
            /\ addr_info' = <<>>
            /\ UNCHANGED <<target_ip, content_chunks, total_size, nresolve,
                           body_read, result, raised, escaped>>
       \/ \E e \in SendErrors :
            /\ Except(e, e)
            /\ IF Retrying(e)
               THEN ClearHop
               ELSE /\ headers' = RequestHeaders(current_url, extra_headers)
                    /\ conn_ip' \in ConnectAddresses(target_ip)
                    /\ response' = NoResponse
                    /\ addr_info' = <<>>
                    /\ UNCHANGED <<target_ip, content_chunks, total_size,
                                   nresolve, body_read>>
    /\ nreq' = nreq + 1
    /\ UNCHANGED <<args, attempt, redirects_left, current_url, nres, sleeps,
                   nonFetchVars>>

(* whether the body is iterated, line 116 *)
ReadsBodyAlways(m) == TRUE

ReadsBody(m) == m = "GET"

(* whether the chunk just counted is dropped and the loop left, line 119 *)
OverCapNever(n) == FALSE

OverCapByOne(n) == n > MAX_RESPONSE_SIZE + 1

OverCap(n) == n > MAX_RESPONSE_SIZE

(* lines 117-122: one chunk of the body arrives; a chunk that takes the    *)
(* total past the cap closes the response and ends the loop, and is not    *)
(* kept.                                                                   *)
ReadChunk ==
    /\ pc = "read"
    /\ ReadsBody(method)
    /\ body_read < MaxChunks
    /\ \E n \in ChunkSizes :
         /\ total_size' = total_size + n
         /\ body_read' = body_read + 1
         /\ IF OverCap(total_size + n)
            THEN content_chunks' = content_chunks /\ pc' = "redirect"
            ELSE content_chunks' = Append(content_chunks, n) /\ pc' = pc
    /\ UNCHANGED <<args, attempt, redirects_left, current_url, addr_info, target_ip,
                   headers, response, conn_ip, nresolve, result, nreq, nres, sleeps,
                   raised, escaped, nonFetchVars>>

(* lines 117-122: the body ends; or the read fails *)
EndOfBody ==
    /\ pc = "read"
    /\ ReadsBody(method)
    /\ pc' = "redirect"
    /\ UNCHANGED <<args, attempt, redirects_left, current_url, hopVars, result,
                   nreq, nres, sleeps, raised, escaped, nonFetchVars>>

BodyError ==
    /\ pc = "read"
    /\ ReadsBody(method)
    /\ \E e \in ReadErrors :
         /\ Except(e, e)
         /\ IF Retrying(e) THEN ClearHop ELSE UNCHANGED hopVars
    /\ UNCHANGED <<args, attempt, redirects_left, current_url, nreq, nres,
                   sleeps, nonFetchVars>>

(* lines 123-124: any other method closes the response unread *)
CloseUnread ==
    /\ pc = "read"
    /\ ~ReadsBody(method)
    /\ pc' = "redirect"
    /\ UNCHANGED <<args, attempt, redirects_left, current_url, hopVars, result,
                   nreq, nres, sleeps, raised, escaped, nonFetchVars>>

(* lines 126-153: the chunks kept are joined and decoded; a redirect with  *)
(* a Location is followed, a redirect without one breaks out of the while  *)
(* loop to the raise that follows it, anything else is returned.           *)
AfterBody ==
    /\ pc = "redirect"
    /\ IF is_redirect(response)
       THEN IF response.location.kind = "none"
            THEN /\ Except("SafeHTTPError", ErrMaxRedirects)
                 /\ UNCHANGED <<current_url, redirects_left, hopVars>>
            ELSE /\ current_url' = NextUrl(current_url, response.location)
                 /\ redirects_left' = redirects_left - 1
                 /\ pc' = "loop"
                 /\ ClearHop
                 /\ UNCHANGED <<result, raised, escaped>>
       ELSE /\ result' = Ok(response.status, Sum(content_chunks),
                            RequestUrl(current_url, target_ip))
            /\ pc' = "done"
            /\ UNCHANGED <<current_url, redirects_left, hopVars, raised, escaped>>
    /\ UNCHANGED <<args, attempt, nreq, nres, sleeps, nonFetchVars>>

(* lines 156-158: the backoff sleep, then the next attempt *)
Sleep ==
    /\ pc = "sleep"
    /\ sleeps' = Append(sleeps, Backoff(attempt))
    /\ attempt' = attempt + 1
    /\ pc' = "attempt"
    /\ raised' = "none"
    /\ UNCHANGED <<args, redirects_left, current_url, hopVars, result, nreq, nres,
                   escaped, nonFetchVars>>

CallIdle == nsent = 0

(* safe_request by itself: the count of the call's requests is not kept *)
NextFetch ==
    \/ StartAttempt /\ UNCHANGED callVars
    \/ Hop /\ UNCHANGED callVars
    \/ Send /\ UNCHANGED callVars
    \/ ReadChunk /\ UNCHANGED callVars
    \/ EndOfBody /\ UNCHANGED callVars
    \/ BodyError /\ UNCHANGED callVars
    \/ CloseUnread /\ UNCHANGED callVars
    \/ AfterBody /\ UNCHANGED callVars
    \/ Sleep /\ UNCHANGED callVars

(* safe_request with every request of the call counted: client.send,      *)
(* line 110, is the one place a request leaves from.                       *)
NextCall ==
    \/ StartAttempt /\ UNCHANGED callVars
    \/ Hop /\ UNCHANGED callVars
    \/ Send /\ nsent' = nsent + 1
    \/ ReadChunk /\ UNCHANGED callVars
    \/ EndOfBody /\ UNCHANGED callVars
    \/ BodyError /\ UNCHANGED callVars
    \/ CloseUnread /\ UNCHANGED callVars
    \/ AfterBody /\ UNCHANGED callVars
    \/ Sleep /\ UNCHANGED callVars

-----------------------------------------------------------------------------
(* run_module_safely (main.py) *)

(* The probes _orchestrate_full_scan registers, main.py lines 188-203,     *)
(* each with whether its function is a coroutine function.                 *)
Registry ==
    {[name |-> "DNS", coroutine |-> FALSE],
     [name |-> "Whois", coroutine |-> FALSE],
     [name |-> "SSL", coroutine |-> FALSE],
     [name |-> "Headers", coroutine |-> TRUE],
     [name |-> "Tech", coroutine |-> TRUE],
     [name |-> "Security Headers", coroutine |-> TRUE],
     [name |-> "Subdomains", coroutine |-> TRUE],
     [name |-> "Public Files", coroutine |-> TRUE],
     [name |-> "Directory Exposure", coroutine |-> TRUE],
     [name |-> "Code Leaks", coroutine |-> TRUE],
     [name |-> "Historical", coroutine |-> TRUE],
     [name |-> "Ports", coroutine |-> TRUE],
     [name |-> "IP Intelligence", coroutine |-> TRUE],
     [name |-> "Network Footprint", coroutine |-> TRUE]}

iscoroutinefunction(name) ==
    \E p \in Registry : p.name = name /\ p.coroutine

(* A dict a probe returns: its "error" entry (<<>> when it has none) and   *)
(* the rest of its payload.                                                *)
Dict(e, d) == [error |-> e, data |-> d]
ProbeValues == {Dict(<<>>, "records"), Dict(<<>>, "empty"),
                Dict(<<"Could not fetch">>, "")}

(* Exceptions a probe raises, all derived from Exception; TimeoutError is  *)
(* the class asyncio.TimeoutError names.                                   *)
ProbeErrors == {"SafeHTTPError", "ValueError", "KeyError", "OSError", "TimeoutError"}
ExceptionClasses == ProbeErrors

Returned(d) == [kind |-> "returned", dict |-> d, exc |-> "none"]
Propagated(e) == [kind |-> "raised", dict |-> Dict(<<>>, ""), exc |-> e]
NoReturn == [kind |-> "none", dict |-> Dict(<<>>, ""), exc |-> "none"]

TimedOut == Dict(<<"Module timed out">>, "")
Failed(e) == Dict(<<"Module execution failed: ", e>>, "")

(* the except clauses of run_module_safely, lines 175-181 *)
HandlerTimeoutOnly(e) ==
    IF e = "TimeoutError" THEN Returned(TimedOut) ELSE Propagated(e)

Handler(e) ==
    IF e = "TimeoutError" THEN Returned(TimedOut)
    ELSE IF e \in ExceptionClasses THEN Returned(Failed(e))
    ELSE Propagated(e)

NoEnd == [kind |-> "none", dict |-> Dict(<<>>, ""), exc |-> "none"]

InvokeIdle ==
    /\ ipc = "idle"
    /\ module_name = "none"
    /\ probe_end = NoEnd
    /\ ret = NoReturn
    /\ elapsed = 0
    /\ loop_blocked = 0

(* timeout, line 160 *)
timeout == 45

(* Whether the coroutine of run_module_safely can take a step: a probe     *)
(* called directly (line 173) runs inside it; a probe awaited (line 165)   *)
(* goes on, and its deadline fires, only when the event loop is free.      *)
Runnable ==
    iscoroutinefunction(module_name) => loop_blocked = 0

(* lines 154-165, 173: the probe function is called *)
Invoke ==
    /\ ipc = "idle"
    /\ \E p \in Registry : module_name' = p.name
    /\ ipc' = "running"
    /\ elapsed' = 0
    /\ UNCHANGED <<probe_end, ret, loop_blocked, nonInvokeVars>>

(* A second passes while the probe runs.  On a free event loop the timer   *)
(* of asyncio.wait_for (line 165) runs when the deadline is reached, so an *)
(* awaited probe is never seen later than that; nothing bounds a probe     *)
(* called directly (line 173).                                             *)
Tick ==
    /\ ipc = "running"
    /\ IF iscoroutinefunction(module_name) /\ loop_blocked = 0
       THEN elapsed < timeout
       ELSE elapsed < timeout + MaxOverrun
    /\ elapsed' = elapsed + 1
    /\ loop_blocked' = IF loop_blocked > 0 THEN loop_blocked - 1 ELSE 0
    /\ UNCHANGED <<ipc, module_name, probe_end, ret, nonInvokeVars>>

(* lines 166-173 (and lines 62-78): while the probe is awaited, another    *)
(* task of the same event loop calls a synchronous probe, which holds the  *)
(* loop until it returns.                                                  *)
OtherTaskBlocks ==
    /\ ipc = "running"
    /\ iscoroutinefunction(module_name)
    /\ loop_blocked = 0
    /\ \E n \in 1..MaxBlock : loop_blocked' = n
    /\ UNCHANGED <<ipc, module_name, probe_end, ret, elapsed, nonInvokeVars>>

(* lines 165, 173: the probe returns a value, which is returned as it is *)
ProbeReturns ==
    /\ ipc = "running"
    /\ Runnable
    /\ \E d \in ProbeValues :
         /\ probe_end' = [kind |-> "value", dict |-> d, exc |-> "none"]
         /\ ret' = Returned(d)
    /\ ipc' = "returned"
    /\ UNCHANGED <<module_name, elapsed, loop_blocked, nonInvokeVars>>

(* lines 175-181: the probe raises *)
ProbeRaises ==
    /\ ipc = "running"
    /\ Runnable
    /\ \E e \in ProbeErrors :
         /\ probe_end' = [kind |-> "raise", dict |-> Dict(<<>>, ""), exc |-> e]
         /\ ret' = Handler(e)
    /\ ipc' = "returned"
    /\ UNCHANGED <<module_name, elapsed, loop_blocked, nonInvokeVars>>

(* lines 165, 175-177: the deadline of asyncio.wait_for fires before the   *)
(* coroutine has finished; wait_for cancels it and raises TimeoutError.    *)
(* A synchronous probe is called directly and has no deadline.             *)
DeadlineFires ==
    /\ ipc = "running"
    /\ iscoroutinefunction(module_name)
    /\ loop_blocked = 0
    /\ elapsed >= timeout
    /\ probe_end' = [kind |-> "cancelled", dict |-> Dict(<<>>, ""), exc |-> "none"]
    /\ ret' = Handler("TimeoutError")
    /\ ipc' = "returned"
    /\ UNCHANGED <<module_name, elapsed, loop_blocked, nonInvokeVars>>

NextInvoke ==
    \/ Invoke
    \/ Tick
    \/ ProbeReturns
    \/ ProbeRaises
    \/ DeadlineFires

NextLoop ==
    \/ Invoke
    \/ Tick
    \/ OtherTaskBlocks
    \/ ProbeReturns
    \/ ProbeRaises
    \/ DeadlineFires

-----------------------------------------------------------------------------
(* _orchestrate_full_scan (main.py) *)

(* the run_module_safely statements in program order, lines 188-203 *)
Order == <<"DNS", "Whois", "SSL", "Headers", "Tech", "Security Headers",
           "Subdomains", "Public Files", "Directory Exposure", "Code Leaks",
           "Historical", "Ports", "IP Intelligence", "Network Footprint">>

Names == {Order[i] : i \in 1..Len(Order)}

(* the key of full_data each local is stored under, lines 207-220 *)
KeyOfShared(n) ==
    IF n \in {"Headers", "Security Headers"} THEN "headers" ELSE "other"

KeyOf(n) ==
    CASE n = "DNS" -> "dns"
      [] n = "Whois" -> "whois"
      [] n = "SSL" -> "ssl"
      [] n = "Headers" -> "headers"
      [] n = "Tech" -> "tech"
      [] n = "Security Headers" -> "security_headers"
      [] n = "Subdomains" -> "subdomains"
      [] n = "Public Files" -> "public_files"
      [] n = "Directory Exposure" -> "directory_exposure"
      [] n = "Code Leaks" -> "code_leaks"
      [] n = "Historical" -> "historical"
      [] n = "Ports" -> "ports"
      [] n = "IP Intelligence" -> "ip_intelligence"
      [] n = "Network Footprint" -> "network_footprint"

NoEntry == Dict(<<"unbound">>, "")

(* How a probe operation ends inside run_module_safely: with a value, with *)
(* an exception, or cancelled by the deadline (awaited probes only).       *)
Value(d) == [kind |-> "value", dict |-> d, exc |-> "none"]
Raise(e) == [kind |-> "raise", dict |-> Dict(<<>>, ""), exc |-> e]
Cancelled == [kind |-> "cancelled", dict |-> Dict(<<>>, ""), exc |-> "none"]

ScanEnds(n) ==
    {Value(Dict(<<>>, "records")), Value(Dict(<<"Could not fetch">>, "")),
     Raise("SafeHTTPError"), Raise("TimeoutError")}
    \cup (IF iscoroutinefunction(n) THEN {Cancelled} ELSE {})

UsualEnds == {Value(Dict(<<>>, "records")), Raise("SafeHTTPError")}

(* what run_module_safely does with the end of the probe, lines 163-181 *)
RunModuleSafely(o) ==
    IF o.kind = "value" THEN Returned(o.dict)
    ELSE IF o.kind = "raise" THEN Handler(o.exc)
    ELSE Handler("TimeoutError")

(* map_attack_surface and the except clause around it, lines 224-227 *)
MapEnds == {Value(Dict(<<>>, "surface_map")), Raise("KeyError"), Raise("TypeError")}

MappingFailed(e) == Dict(<<"Mapping failed: ", e>>, "risk_assessment F")

MapHandlerNone(e) == Propagated(e)

MapHandler(e) ==
    IF e \in ExceptionClasses \cup {"TypeError"} THEN Returned(MappingFailed(e))
    ELSE Propagated(e)

(* What the completion of an operation that wait_for has cancelled writes: *)
(* nothing; its value has no way into the locals, lines 165 and 175-177.   *)
LateWriteOverwrites(r, n, d) == [r EXCEPT ![n] = d]

LateWrite(r, n, d) == r

ScanIdle ==
    /\ spc = "idle"
    /\ domain = "none"
    /\ scan_i = 1
    /\ res = [n \in Names |-> NoEntry]
    /\ full_data = {}
    /\ invoked = [n \in Names |-> 0]
    /\ ends = [n \in Names |-> NoEnd]
    /\ usual = NoEnd
    /\ deviations = 0
    /\ late = 0

InitScan ==
    /\ spc = "probes"
    /\ domain \in {"a.test", "b.test"}
    /\ scan_i = 1
    /\ res = [n \in Names |-> NoEntry]
    /\ full_data = {}
    /\ invoked = [n \in Names |-> 0]
    /\ ends = [n \in Names |-> NoEnd]
    /\ usual \in UsualEnds
    /\ deviations = 0
    /\ late = 0

(* one statement of lines 188-203: run_module_safely is awaited and what   *)
(* it returns is bound to the local; an exception it let through would     *)
(* leave _orchestrate_full_scan.                                           *)
ScanProbe ==
    /\ spc = "probes"
    /\ scan_i <= Len(Order)
    /\ LET n == Order[scan_i] IN
       \E o \in ScanEnds(n) :
         LET r == RunModuleSafely(o) IN
         /\ o # usual => deviations < MaxDeviations
         /\ deviations' = IF o # usual THEN deviations + 1 ELSE deviations
         /\ invoked' = [invoked EXCEPT ![n] = @ + 1]
         /\ ends' = [ends EXCEPT ![n] = o]
         /\ IF r.kind = "returned"
            THEN /\ res' = [res EXCEPT ![n] = r.dict]
                 /\ scan_i' = scan_i + 1
                 /\ spc' = spc
            ELSE /\ spc' = "raised"
                 /\ UNCHANGED <<res, scan_i>>
    /\ UNCHANGED <<domain, full_data, usual, late, nonScanVars>>

(* lines 205-221: the aggregate is built from the locals *)
BuildFullData ==
    /\ spc = "probes"
    /\ scan_i = Len(Order) + 1
    /\ full_data' = {<<"target", domain>>} \cup {<<KeyOf(n), res[n]>> : n \in Names}
    /\ spc' = "map"
    /\ UNCHANGED <<domain, scan_i, res, invoked, ends, usual, deviations, late,
                   nonScanVars>>

(* lines 224-231: the attack surface is mapped and the aggregate returned *)
MapAttackSurface ==
    /\ spc = "map"
    /\ \E o \in MapEnds :
         LET r == IF o.kind = "value" THEN Returned(o.dict) ELSE MapHandler(o.exc) IN
         IF r.kind = "returned"
         THEN /\ full_data' = Update(full_data, {<<"attack_surface", r.dict>>})
              /\ spc' = "done"
         ELSE /\ spc' = "raised"
              /\ UNCHANGED full_data
    /\ UNCHANGED <<domain, scan_i, res, invoked, ends, usual, deviations, late,
                   nonScanVars>>

(* An operation that wait_for cancelled at its deadline completes all the  *)
(* same, at any later time (a lookup or a connection it had started).      *)
LateCompletion ==
    /\ late < MaxLate
    /\ \E n \in Names :
         /\ ends[n] = Cancelled
         /\ \E d \in ProbeValues : res' = LateWrite(res, n, d)
    /\ late' = late + 1
    /\ UNCHANGED <<spc, domain, scan_i, full_data, invoked, ends, usual, deviations,
                   nonScanVars>>

NextScan ==
    \/ ScanProbe
    \/ BuildFullData
    \/ MapAttackSurface
    \/ LateCompletion

-----------------------------------------------------------------------------
(* The probes that fetch through safe_get/safe_head (modules/*.py), and    *)
(* what reaches their caller.                                              *)

(* Each probe with whether its fetch is inside a try/except Exception.     *)
FetchProbes ==
    {[name |-> "analyze_headers", guarded |-> TRUE],
     [name |-> "get_tech_fingerprint", guarded |-> FALSE],
     [name |-> "analyze_security_headers", guarded |-> FALSE],
     [name |-> "check_public_files", guarded |-> FALSE],
     [name |-> "check_directory_exposure", guarded |-> FALSE],
     [name |-> "check_code_leaks", guarded |-> TRUE],
     [name |-> "check_historical_data", guarded |-> TRUE]}

Guarded(p) == \E q \in FetchProbes : q.name = p /\ q.guarded

(* ip_str as the text it is, safe_http.py line 22 *)
Text(ip) ==
    CASE ip = PublicA -> "93.184.216.34"
      [] ip = PublicB -> "8.8.8.8"
      [] ip = PrivateA -> "10.0.0.5"
      [] ip = LoopbackA -> "127.0.0.1"
      [] ip = LinkLocalA -> "169.254.169.254"
      [] ip = MulticastA -> "224.0.0.1"
      [] ip = ReservedA -> "240.0.0.1"
      [] ip = SharedA -> "100.64.0.1"

(* An exception: its class and str() of it, a text followed by the address *)
(* the text names ("" when it names none).                                 *)
Exc(c, t, a) == [cls |-> c, text |-> t, addr |-> a]
NoExc == Exc("none", "", "")

(* how one safe_get/safe_head call ends: the dict of lines 146-151 or the  *)
(* SafeHTTPError of lines 22-25, 153 and 159-164                           *)
Got(st) == [kind |-> "ok", status |-> st, exc |-> NoExc]
Failure(x) == [kind |-> "err", status |-> 0, exc |-> x]
NotFetched == [kind |-> "none", status |-> 0, exc |-> NoExc]

FetchDicts == {Got(200), Got(403), Got(404)}
FetchFailures ==
    {Failure(Exc("SafeHTTPError", validate_ip(a), Text(a))) :
        a \in {b \in Addrs : validate_ip(b) # "ok"}}
    \cup {Failure(Exc("SafeHTTPError", m, "")) :
            m \in {ErrMaxRedirects, ErrAfterRetries, ErrNoResolve}}

(* the keys of the dict safe_request returns, safe_http.py lines 146-151,  *)
(* and the test `key in response` of the probes                            *)
ResponseKeys == {"status_code", "headers", "content_text", "url"}
HasKey(f, key) == f.kind = "ok" /\ key \in ResponseKeys

(* the probes that fetch https://<domain> and have a branch that fetches   *)
(* http://<domain> (tech_fingerprint.py lines 81-86,                       *)
(* security_headers_recon.py lines 43-48), and what that branch returns    *)
(* when its fetch has an "error" key as well                               *)
Fallbacks == {"get_tech_fingerprint", "analyze_security_headers"}
CouldNotFetch == Dict(<<"Could not fetch headers">>, "")

(* the length of the probe's loop over its allowlist *)
Iterations(p) ==
    IF p = "check_public_files" THEN 6
    ELSE IF p = "check_directory_exposure" THEN 3
    ELSE 1

(* how a probe ends *)
PValue(d) == [kind |-> "value", dict |-> d, exc |-> NoExc]
PRaise(x) == [kind |-> "raise", dict |-> Dict(<<>>, ""), exc |-> x]
PNone == [kind |-> "none", dict |-> Dict(<<>>, ""), exc |-> NoExc]

(* what the except clause of a guarded probe returns *)
Degraded(p) ==
    IF p = "analyze_headers" THEN Dict(<<"Analysis failed">>, "")
    ELSE IF p = "check_code_leaks" THEN Dict(<<>>, "status error")
    ELSE Dict(<<>>, "results")

(* main.py lines 179-181: the entry for a probe that raised x *)
FailedWithMessage(x) == Dict(<<"Module execution failed: ", x.text, x.addr>>, "")

FailedEntry(x) == Failed(x.cls)

(* error_handler.py lines 20-47 and 67-114: the response for exception x *)
ERROR_MAPPING(c) ==
    CASE c = "SafeHTTPError" ->
           <<"SAFE_HTTP_ERROR",
             "Secure HTTP request failed (SSRF Protection or Network Error).">>
      [] c = "TimeoutError" -> <<"TIMEOUT", "The operation timed out.">>
      [] c = "ValueError" -> <<"INVALID_INPUT", "Invalid input provided.">>
      [] OTHER ->
           <<"INTERNAL_ERROR",
             "An unexpected error occurred. The administrative team has been notified.">>

centralized_exception_handler(x) == Dict(ERROR_MAPPING(x.cls), "")

ProbeIdle ==
    /\ ppc = "idle"
    /\ probe = "none"
    /\ via = "none"
    /\ fetch_k = 0
    /\ sub = "none"
    /\ fetched = NotFetched
    /\ pout = PNone
    /\ visible = Dict(<<>>, "")
    /\ logged = {}

InitProbe ==
    /\ ppc = "fetching"
    /\ probe \in {q.name : q \in FetchProbes}
    /\ via \in {"scan", "endpoint"}
    /\ fetch_k = 1
    /\ sub = IF probe = "check_directory_exposure" THEN "head" ELSE "get"
    /\ fetched = NotFetched
    /\ pout = PNone
    /\ visible = Dict(<<>>, "")
    /\ logged = {}

(* One `await safe_get(url)` or `await safe_head(url)` of the probe and    *)
(* the statements up to the next one or to the end of the probe.  A        *)
(* SafeHTTPError is caught where the call is inside a try/except, and      *)
(* leaves the probe where it is not: the tests `"error" in response` that  *)
(* follow the unguarded calls never see one.                               *)
ProbeFetch ==
    /\ ppc = "fetching"
    /\ \E f \in FetchDicts \cup FetchFailures :
         /\ fetched' = f
         /\ IF f.kind = "err"
            THEN /\ pout' = IF Guarded(probe) THEN PValue(Degraded(probe))
                                               ELSE PRaise(f.exc)
                 /\ ppc' = "ended"
                 /\ UNCHANGED <<fetch_k, sub>>
            ELSE IF probe \in Fallbacks /\ HasKey(f, "error")
            THEN IF fetch_k = 1
                 THEN /\ fetch_k' = 2
                      /\ UNCHANGED <<sub, pout, ppc>>
                 ELSE /\ pout' = PValue(CouldNotFetch)
                      /\ ppc' = "ended"
                      /\ UNCHANGED <<fetch_k, sub>>
            ELSE IF probe = "check_directory_exposure" /\ sub = "head"
                    /\ f.status = 200
            THEN /\ sub' = "get"
                 /\ UNCHANGED <<fetch_k, pout, ppc>>
            ELSE IF fetch_k < Iterations(probe)
            THEN /\ fetch_k' = fetch_k + 1
                 /\ sub' = IF probe = "check_directory_exposure" THEN "head" ELSE sub
                 /\ UNCHANGED <<pout, ppc>>
            ELSE /\ pout' = PValue(Dict(<<>>, "results"))
                 /\ ppc' = "ended"
                 /\ UNCHANGED <<fetch_k, sub>>
    /\ UNCHANGED <<probe, via, visible, logged, nonProbeVars>>

(* What the caller gets.  In a scan: main.py lines 163-181, the value or   *)
(* the entry made from the exception, whose text goes to the log.  At an   *)
(* endpoint: main.py lines 80-126, the value, or for an exception the      *)
(* response of error_handler.py lines 56-114, which logs the text too.     *)
Deliver ==
    /\ ppc = "ended"
    /\ ppc' = "delivered"
    /\ IF pout.kind = "value"
       THEN visible' = pout.dict /\ logged' = logged
       ELSE /\ logged' = logged \cup {<<pout.exc.text, pout.exc.addr>>}
            /\ visible' = IF via = "scan" THEN FailedEntry(pout.exc)
                                           ELSE centralized_exception_handler(pout.exc)
    /\ UNCHANGED <<probe, via, fetch_k, sub, fetched, pout, nonProbeVars>>

NextProbe ==
    \/ ProbeFetch
    \/ Deliver

-----------------------------------------------------------------------------
(* _validate_ip called on an IPv4 literal *)

(* The literals tried: octets on both sides of every range boundary that   *)
(* ipaddress knows of.                                                     *)
Octets1 == {0, 1, 9, 10, 11, 100, 101, 126, 127, 128, 169, 170, 172, 173, 192,
            198, 203, 223, 224, 239, 240, 255}
Octets2 == {0, 15, 16, 17, 18, 19, 20, 31, 32, 51, 63, 64, 127, 128, 167, 168,
            253, 254, 255}
Octets3 == {0, 2, 100, 113}
Octets4 == {0, 1, 7, 8, 169, 170, 171, 172, 255}
Literals == Octets1 \X Octets2 \X Octets3 \X Octets4

(* validate_target (input_validator.py) on an IPv4 literal, lines 49-65:  *)
(* the ValidationResult it returns.                                        *)
ValidationResult(v, t, p) == [is_valid |-> v, input_type |-> t, is_public |-> p]
NoValidation == ValidationResult(FALSE, "unknown", FALSE)

validate_target(ip) ==
    IF is_private(ip) \/ is_loopback(ip) \/ is_link_local(ip)
       \/ is_reserved(ip) \/ is_multicast(ip)
    THEN ValidationResult(FALSE, "ipv4", FALSE)
    ELSE ValidationResult(TRUE, "ipv4", TRUE)

ValidateIdle ==
    /\ vpc = "idle"
    /\ ip_str = NoAddr
    /\ verdict = "none"
    /\ tpc = "idle"
    /\ accepted = NoValidation

InitValidate ==
    /\ vpc = "called"
    /\ ip_str \in Literals
    /\ verdict = "none"
    /\ tpc = "called"
    /\ accepted = NoValidation

(* lines 17-28 *)
ValidateIp ==
    /\ vpc = "called"
    /\ verdict' = validate_ip(ip_str)
    /\ vpc' = "ended"
    /\ UNCHANGED <<ip_str, tpc, accepted, nonValidateVars>>

(* input_validator.py lines 49-65 *)
ValidateTarget ==
    /\ tpc = "called"
    /\ accepted' = validate_target(ip_str)
    /\ tpc' = "ended"
    /\ UNCHANGED <<ip_str, vpc, verdict, nonValidateVars>>

NextValidate ==
    \/ ValidateIp
    \/ ValidateTarget

-----------------------------------------------------------------------------
(* The connections the probes of a full scan open (main.py lines 188-203   *)
(* and the modules they call).                                             *)

(* TOP_PORTS, port_recon.py lines 7-18, in the order of the dict *)
TOP_PORTS == <<80, 443, 8080, 8443, 21, 22, 25, 53, 3306, 3389>>

(* Each probe with the host its connection goes to and the call that opens *)
(* it: peer "target" is the caller-supplied name, "service" a host the     *)
(* probe names itself.                                                     *)
Reaches ==
    {[name |-> "DNS", peer |-> "service", by |-> "dns.resolver"],
     [name |-> "Whois", peer |-> "service", by |-> "socket.create_connection"],
     [name |-> "SSL", peer |-> "target", by |-> "socket.create_connection"],
     [name |-> "Headers", peer |-> "target", by |-> "safe_request"],
     [name |-> "Tech", peer |-> "target", by |-> "safe_request"],
     [name |-> "Security Headers", peer |-> "target", by |-> "safe_request"],
     [name |-> "Subdomains", peer |-> "service", by |-> "httpx"],
     [name |-> "Public Files", peer |-> "target", by |-> "safe_request"],
     [name |-> "Directory Exposure", peer |-> "target", by |-> "safe_request"],
     [name |-> "Code Leaks", peer |-> "service", by |-> "safe_request"],
     [name |-> "Historical", peer |-> "service", by |-> "safe_request"],
     [name |-> "Ports", peer |-> "target", by |-> "asyncio.open_connection"],
     [name |-> "IP Intelligence", peer |-> "service", by |-> "httpx"],
     [name |-> "Network Footprint", peer |-> "service", by |-> "dns.resolver"]}

ReachOf(n) == CHOOSE p \in Reaches : p.name = n

(* the connections one probe opens: check_port once for every port *)
Attempts(n) == IF n = "Ports" THEN Len(TOP_PORTS) ELSE 1

(* the port of connection k of probe n; 0 where the URL decides it *)
PortOf(n, k) ==
    IF n = "Ports" THEN TOP_PORTS[k] ELSE IF n = "SSL" THEN 443 ELSE 0

(* a connection attempt: the address the name resolved to for it and the  *)
(* address connected to (NoAddr when none was)                             *)
Conn(n, b, peer, r, a, p) ==
    [probe |-> n, by |-> b, peer |-> peer, resolved |-> r, to |-> a, port |-> p]
NoConn == Conn("none", "none", "none", NoAddr, NoAddr, 0)

(* The address a connection of probe p goes to when the name resolves to   *)
(* a: safe_request validates it first and connects only to what passed;    *)
(* socket.create_connection and asyncio.open_connection resolve the name   *)
(* themselves and connect to what they get.                                *)
Destination(p, a) ==
    IF p.by = "safe_request"
    THEN resolve_and_validate(<<a>>).ip
    ELSE a

ReachIdle ==
    /\ rpc = "idle"
    /\ reach_i = 0
    /\ reach_k = 0
    /\ conn = NoConn

InitReach ==
    /\ rpc = "scan"
    /\ reach_i = 1
    /\ reach_k = 1
    /\ conn = NoConn

(* one connection of the probe whose turn it is *)
ProbeConnects ==
    /\ rpc = "scan"
    /\ LET n == Order[reach_i]
           p == ReachOf(n)
       IN /\ \E a \in Addrs :
                conn' = IF p.peer = "target"
                        THEN Conn(n, p.by, p.peer, a, Destination(p, a),
                                  PortOf(n, reach_k))
                        ELSE Conn(n, p.by, p.peer, NoAddr, NoAddr, PortOf(n, reach_k))
          /\ IF reach_k < Attempts(n)
             THEN reach_k' = reach_k + 1 /\ UNCHANGED <<reach_i, rpc>>
             ELSE /\ reach_k' = 1
                  /\ IF reach_i < Len(Order)
                     THEN reach_i' = reach_i + 1 /\ rpc' = rpc
                     ELSE reach_i' = reach_i /\ rpc' = "done"
    /\ UNCHANGED nonReachVars

NextReach == ProbeConnects

-----------------------------------------------------------------------------
(* scan_ports and check_port (port_recon.py) *)

PortIdle ==
    /\ qpc = "idle"
    /\ tasks = <<>>
    /\ port_i = 0
    /\ running = {}
    /\ open_ports = <<>>

InitPorts ==
    /\ qpc = "build"
    /\ tasks = <<>>
    /\ port_i = 0
    /\ running = {}
    /\ open_ports = <<>>

(* lines 46-48: check_port(domain, port) is called, which makes a          *)
(* coroutine object and runs none of its body                              *)
AppendTask ==
    /\ qpc = "build"
    /\ tasks' = Append(tasks, TOP_PORTS[Len(tasks) + 1])
    /\ IF Len(tasks) + 1 = Len(TOP_PORTS)
       THEN qpc' = "loop" /\ port_i' = 1
       ELSE qpc' = qpc /\ port_i' = port_i
    /\ UNCHANGED <<running, open_ports, nonPortVars>>

(* line 52, `await coro`: the coroutine of this port begins (lines 25-28,  *)
(* the connection attempt) and scan_ports waits for it                     *)
AwaitCoro ==
    /\ qpc = "loop"
    /\ running' = running \cup {tasks[port_i]}
    /\ qpc' = "awaiting"
    /\ UNCHANGED <<tasks, port_i, open_ports, nonPortVars>>

(* check_port ends (lines 28-35) and the loop body goes on, lines 52-57 *)
CheckPortEnds ==
    /\ qpc = "awaiting"
    /\ \E is_open \in BOOLEAN :
         open_ports' = IF is_open THEN Append(open_ports, tasks[port_i])
                                  ELSE open_ports
    /\ running' = running \ {tasks[port_i]}
    /\ IF port_i < Len(tasks)
       THEN port_i' = port_i + 1 /\ qpc' = "loop"
       ELSE port_i' = port_i /\ qpc' = "done"
    /\ UNCHANGED <<tasks, nonPortVars>>

NextPorts ==
    \/ AppendTask
    \/ AwaitCoro
    \/ CheckPortEnds

-----------------------------------------------------------------------------
(* Several calls of safe_request as tasks of one event loop                *)
(* (verify_concurrency.py lines 15-23).  A call runs from one await to the *)
(* next without interruption; at an await any other call may run.          *)

Calls == {"a", "b"}
CallUrl(c) == IF c = "a" THEN U("https", "a.test", "/") ELSE U("", "a.test", "/x")

(* What the network answers a hop: the name resolves to a private address; *)
(* the request fails with httpx.ConnectError; a redirect to a path; a 200. *)
(* The answers of a call are its script, then 200 from there on.           *)
Answers == {"blocked", "fail", "redirect"}
Scripts == UNION {[1..n -> Answers] : n \in 0..MaxAnswers}
Ans(sc, k) == IF k + 1 <= Len(sc) THEN sc[k + 1] ELSE "ok"

(* the local variables of a call, lines 67-71 and 113-114 *)
Locals(a, r, u, rsp, ch, t) ==
    [attempt |-> a, redirects_left |-> r, current_url |-> u, response |-> rsp,
     content_chunks |-> ch, total_size |-> t]
NoLocals == Locals(0, MAX_REDIRECTS, NoUrl, NoResponse, <<>>, 0)

(* The frame a call's local variables live in: every call of a coroutine   *)
(* function has a frame of its own.                                        *)
FrameShared(c) == "a"

Frame(c) == c

Seg(p, l, o, n) == [pos |-> p, l |-> l, out |-> o, used |-> n]

(* lines 73-110: the loop test, the resolution, up to `await client.send` *)
BeginHop(l, x) ==
    IF ~LoopGuard(l.redirects_left) THEN Seg("done", l, Err(ErrMaxRedirects), 0)
    ELSE IF x = "blocked" THEN Seg("done", l, Err(ErrInternal), 1)
    ELSE Seg("send", l, NoResult, 0)

(* lines 67-71, then the first hop *)
BeginAttempt(l, u, x) ==
    BeginHop([l EXCEPT !.redirects_left = MAX_REDIRECTS, !.current_url = u], x)

(* What a call does from the await it is suspended in (pos) to its next    *)
(* await, on local variables l, for the caller's URL u, when the network's *)
(* next answer is x.                                                       *)
Segment(pos, l, u, x) ==
    IF pos = "attempt" THEN BeginAttempt(l, u, x)
    ELSE IF pos = "send"
    THEN IF x = "fail"
         THEN IF MayRetry(l.attempt) THEN Seg("sleep", l, NoResult, 1)
              ELSE Seg("done", l, Err(ErrAfterRetries), 1)
         ELSE Seg("read",
                  [l EXCEPT !.response = IF x = "redirect"
                                         THEN Resp(301, Loc("path", "", "", "/x"))
                                         ELSE Resp(200, NoLocation),
                            !.content_chunks = <<>>,
                            !.total_size = 0],
                  NoResult, 1)
    ELSE IF pos = "read"
    THEN Seg("eof",
             [l EXCEPT !.total_size = @ + 1,
                       !.content_chunks = IF OverCap(l.total_size + 1)
                                          THEN @ ELSE Append(@, 1)],
             NoResult, 0)
    ELSE IF pos = "eof"
    THEN IF is_redirect(l.response)
         THEN BeginHop([l EXCEPT !.current_url = NextUrl(@, l.response.location),
                                 !.redirects_left = @ - 1], x)
         ELSE Seg("done", l,
                  Ok(l.response.status, Sum(l.content_chunks),
                     RequestUrl(l.current_url, PublicA)), 0)
    ELSE BeginAttempt([l EXCEPT !.attempt = @ + 1], u, x)

(* a call run alone against the answers sc *)
RECURSIVE Run(_, _, _, _, _, _)
Run(pos, l, u, sc, k, out) ==
    IF pos = "done" THEN out
    ELSE LET r == Segment(pos, l, u, Ans(sc, k))
         IN Run(r.pos, r.l, u, sc, k + r.used, r.out)

Alone(u, sc) == Run("attempt", NoLocals, u, sc, 0, NoResult)

LoopIdle ==
    /\ cpc = [c \in Calls |-> "idle"]
    /\ frame = [c \in Calls |-> NoLocals]
    /\ script = [c \in Calls |-> <<>>]
    /\ taken = [c \in Calls |-> 0]
    /\ outcome = [c \in Calls |-> NoResult]

(* asyncio.gather of the tasks, verify_concurrency.py line 23 *)
InitLoop ==
    /\ cpc = [c \in Calls |-> "attempt"]
    /\ frame = [c \in Calls |-> NoLocals]
    /\ script \in [Calls -> Scripts]
    /\ taken = [c \in Calls |-> 0]
    /\ outcome = [c \in Calls |-> NoResult]

(* the event loop resumes call c, which runs to its next await or its end *)
CallStep ==
    \E c \in Calls :
        /\ cpc[c] # "done"
        /\ LET f == Frame(c)
               r == Segment(cpc[c], frame[f], CallUrl(c), Ans(script[c], taken[c]))
           IN /\ cpc' = [cpc EXCEPT ![c] = r.pos]
              /\ frame' = [frame EXCEPT ![f] = r.l]
              /\ taken' = [taken EXCEPT ![c] = @ + r.used]
              /\ outcome' = [outcome EXCEPT ![c] = r.out]
        /\ UNCHANGED <<script, nonLoopVars>>

NextCalls == CallStep

-----------------------------------------------------------------------------
(* Specifications: one call of safe_request; one call of run_module_safely; *)
(* one call of _validate_ip                                                *)

InitF == InitFetch /\ InvokeIdle /\ ScanIdle /\ ProbeIdle /\ ValidateIdle /\ CallIdle
         /\ ReachIdle /\ PortIdle /\ LoopIdle
SpecFetch == InitF /\ [][NextFetch]_vars

(* one call of safe_request with its requests counted; the caller's        *)
(* headers change no step of the count and are left out                    *)
InitC ==
    /\ InitFetch /\ extra_headers = {}
    /\ InvokeIdle /\ ScanIdle /\ ProbeIdle /\ ValidateIdle /\ CallIdle
    /\ ReachIdle /\ PortIdle /\ LoopIdle
SpecCall == InitC /\ [][NextCall]_vars

InitI == FetchIdle /\ InvokeIdle /\ ScanIdle /\ ProbeIdle /\ ValidateIdle /\ CallIdle
         /\ ReachIdle /\ PortIdle /\ LoopIdle
SpecInvoke == InitI /\ [][NextInvoke]_vars

(* one call of run_module_safely on an event loop that has other tasks *)
SpecLoop == InitI /\ [][NextLoop]_vars

InitV == FetchIdle /\ InvokeIdle /\ ScanIdle /\ ProbeIdle /\ InitValidate /\ CallIdle
         /\ ReachIdle /\ PortIdle /\ LoopIdle
SpecValidate == InitV /\ [][NextValidate]_vars

(* one call of _orchestrate_full_scan *)
InitS == FetchIdle /\ InvokeIdle /\ InitScan /\ ProbeIdle /\ ValidateIdle /\ CallIdle
         /\ ReachIdle /\ PortIdle /\ LoopIdle
SpecScan == InitS /\ [][NextScan]_vars

(* the connections of one full scan *)
InitR == FetchIdle /\ InvokeIdle /\ ScanIdle /\ ProbeIdle /\ ValidateIdle /\ CallIdle
         /\ InitReach /\ PortIdle /\ LoopIdle
SpecReach == InitR /\ [][NextReach]_vars

(* one call of scan_ports *)
InitQ == FetchIdle /\ InvokeIdle /\ ScanIdle /\ ProbeIdle /\ ValidateIdle /\ CallIdle
         /\ ReachIdle /\ InitPorts /\ LoopIdle
SpecPorts == InitQ /\ [][NextPorts]_vars

(* two calls of safe_request gathered on one event loop *)
InitG == FetchIdle /\ InvokeIdle /\ ScanIdle /\ ProbeIdle /\ ValidateIdle /\ CallIdle
         /\ ReachIdle /\ PortIdle /\ InitLoop
SpecGather == InitG /\ [][NextCalls]_vars

(* one call of a probe that fetches *)
InitP == FetchIdle /\ InvokeIdle /\ ScanIdle /\ InitProbe /\ ValidateIdle /\ CallIdle
         /\ ReachIdle /\ PortIdle /\ LoopIdle
SpecProbe == InitP /\ [][NextProbe]_vars

-----------------------------------------------------------------------------
(* Properties *)

IsList(a) == a # GaiError /\ a # OtherError
HopSent == conn_ip # NoAddr
Followed == MAX_REDIRECTS - redirects_left     \* redirects followed in this attempt

(* The address classes the fetch layer must refuse, read off the address   *)
(* itself.                                                                 *)
ListedNonPublic(ip) ==
    is_private(ip) \/ is_loopback(ip) \/ is_link_local(ip) \/ is_multicast(ip)
    \/ is_reserved(ip)
Public(ip) == ~ListedNonPublic(ip) /\ is_global(ip)

(* C1: in every hop the request goes to exactly the address that this      *)
(* hop's _resolve_and_validate returned, that address is public, and the   *)
(* hop resolved the name once, whatever the resolver answers from call to  *)
(* call.                                                                   *)
C1_RequestGoesToValidatedAddress ==
    /\ HopSent =>
         /\ conn_ip = target_ip
         /\ Public(conn_ip)
         /\ nresolve = 1
    /\ pc = "send" =>
         /\ nresolve = 1
         /\ IsList(addr_info) /\ Len(addr_info) >= 1
         /\ target_ip = addr_info[1]
         /\ Public(target_ip)

C1_Witness ==
    /\ HopSent
    /\ Followed = 2
    /\ attempt = 1
    /\ conn_ip = PublicB
    /\ current_url.host = "a.test"

(* C2: a hop whose name resolves only to private, loopback, link-local,    *)
(* multicast or reserved addresses ends the fetch with the blocked-address *)
(* SafeHTTPError and no request of that hop is sent, on the first hop and  *)
(* on a hop reached by a redirect.                                         *)
OnlyListedNonPublic(a) ==
    /\ IsList(a)
    /\ Len(a) >= 1
    /\ \A i \in 1..Len(a) : ListedNonPublic(a[i])

C2_NonPublicHopBlocked ==
    OnlyListedNonPublic(addr_info) =>
        /\ pc = "done"
        /\ result = Err(ErrInternal)
        /\ ~HopSent

C2_Witness ==
    /\ OnlyListedNonPublic(addr_info)
    /\ addr_info = <<LinkLocalA, PrivateA>>
    /\ Followed = 1
    /\ nreq = 1
    /\ pc = "done"

(* C3: an attempt sends at most MAX_REDIRECTS + 1 requests; a non-redirect *)
(* response that comes after at most MAX_REDIRECTS redirects is returned   *)
(* as a success; the redirect after MAX_REDIRECTS redirects ends the fetch *)
(* with 'Max redirects exceeded'; and that error is raised for a chain     *)
(* only when MAX_REDIRECTS + 1 redirects were followed.                    *)
NoLocationRedirect == is_redirect(response) /\ response.location.kind = "none"

C3_RedirectBudget ==
    /\ nreq <= MAX_REDIRECTS + 1
    /\ Followed \in 0..(MAX_REDIRECTS + 1)
    /\ result.kind = "ok" => Followed <= MAX_REDIRECTS
    /\ (pc = "done" /\ response.status = 200 /\ raised = "none") => result.kind = "ok"
    /\ (pc = "done" /\ Followed = MAX_REDIRECTS + 1) => result = Err(ErrMaxRedirects)
    /\ (pc = "done" /\ result = Err(ErrMaxRedirects) /\ ~NoLocationRedirect)
           => Followed = MAX_REDIRECTS + 1 /\ nreq = MAX_REDIRECTS + 1

C3_Witness ==
    /\ result.kind = "ok"
    /\ Followed = MAX_REDIRECTS
    /\ nreq = MAX_REDIRECTS + 1

C3_WitnessExceeded ==
    /\ result = Err(ErrMaxRedirects)
    /\ Followed = MAX_REDIRECTS + 1

(* what C4 expects of _resolve_and_validate: the first candidate that      *)
(* passes _validate_ip, in resolver order                                  *)
resolve_and_validate_first_public(answer) ==
    IF answer = GaiError THEN [ok |-> FALSE, ip |-> NoAddr, msg |-> ErrNoResolve]
    ELSE IF answer = OtherError
    THEN [ok |-> FALSE, ip |-> NoAddr, msg |-> ErrResolution]
    ELSE IF \E i \in 1..Len(answer) : validate_ip(answer[i]) = "ok"
    THEN LET i == CHOOSE k \in 1..Len(answer) :
                    /\ validate_ip(answer[k]) = "ok"
                    /\ \A j \in 1..(k - 1) : validate_ip(answer[j]) # "ok"
         IN [ok |-> TRUE, ip |-> answer[i], msg |-> "ok"]
    ELSE IF Len(answer) = 0
    THEN [ok |-> FALSE, ip |-> NoAddr, msg |-> ErrNoValid]
    ELSE [ok |-> FALSE, ip |-> NoAddr, msg |-> validate_ip(answer[1])]

(* C4 (as claimed): when the resolver returns several candidates and at    *)
(* least one is public, the hop goes on with the first public candidate in *)
(* resolver order, also when earlier candidates are non-public; it is      *)
(* blocked only if no candidate is public.                                 *)
C4_FirstPublicCandidateUsed ==
    (nresolve = 1 /\ IsList(addr_info)
        /\ \E i \in 1..Len(addr_info) : Public(addr_info[i]))
    => /\ target_ip = resolve_and_validate_first_public(addr_info).ip
       /\ result.kind # "err"

C6_RedirectWithoutLocationReturned ==
    (pc = "done" /\ NoLocationRedirect /\ raised \notin ReadErrors) =>
        /\ result.kind = "ok"
        /\ result.status = response.status

TransientFailures == {"ConnectError", "ConnectTimeout", "ReadTimeout", "WriteTimeout",
                      "ReadError", "WriteError"}

C8_TransientFailuresRetried ==
    (pc = "done" /\ raised \in TransientFailures) => attempt = retries - 1

(* C9: a HEAD request takes no chunk from the body at any hop, keeps no    *)
(* content, and a returned result has empty content.                       *)
C9_HeadReadsNoBody ==
    method = "HEAD" =>
        /\ body_read = 0
        /\ content_chunks = <<>>
        /\ total_size = 0
        /\ result.kind = "ok" => result.content_len = 0

C9_Witness ==
    /\ method = "HEAD"
    /\ result.kind = "ok"
    /\ Followed = 1

(* C10: run_module_safely returns in every case: an exception of the probe *)
(* becomes a dict with an 'error' entry, and a value the probe returns is  *)
(* returned unchanged.                                                     *)
C10_InvokerContainsErrors ==
    ipc = "returned" =>
        /\ ret.kind = "returned"
        /\ probe_end.kind = "raise" => ret.dict.error # <<>> /\ ret.dict.data = ""
        /\ probe_end.kind = "value" => ret.dict = probe_end.dict

C10_Witness ==
    /\ ipc = "returned"
    /\ probe_end.kind = "raise"
    /\ probe_end.exc = "SafeHTTPError"
    /\ iscoroutinefunction(module_name)
    /\ ret = Returned(Failed("SafeHTTPError"))

(* C19: a redirect whose Location is a path starting with "/" is resolved  *)
(* against the scheme and hostname of the hop that received it and is      *)
(* followed with a new resolution; a fetch that followed one such redirect *)
(* and then got a non-redirect response has sent two requests, resolved    *)
(* twice, and returns that response with the path of the Location in its   *)
(* url.                                                                    *)
PathRedirect ==
    pc = "redirect" /\ is_redirect(response) /\ response.location.kind = "path"

FollowedOnePathRedirect ==
    /\ pc = "done"
    /\ result.kind = "ok"
    /\ Followed = 1
    /\ current_url.host = url.host
    /\ current_url.path = "/x"

C19_PathRedirectFollowed ==
    /\ [][PathRedirect =>
            /\ current_url' = U(SchemeOf(current_url), current_url.host,
                                response.location.path)
            /\ redirects_left' = redirects_left - 1
            /\ pc' = "loop"
            /\ nresolve' = 0
            /\ result' = result]_vars
    /\ [](FollowedOnePathRedirect =>
            /\ nreq = 2
            /\ nres = 2
            /\ nresolve = 1
            /\ ~is_redirect(response)
            /\ result.status = response.status
            /\ result.url = [scheme |-> SchemeOf(url), host |-> conn_ip,
                             path |-> "/x"])

C19_Witness ==
    /\ FollowedOnePathRedirect
    /\ url = U("https", "a.test", "/")
    /\ current_url = U("https", "a.test", "/x")
    /\ nreq = 2
    /\ nres = 2
    /\ result = Ok(200, 0, [scheme |-> "https", host |-> PublicA, path |-> "/x"])

(* HTTP header names are compared without regard to letter case *)
LowerName(k) ==
    IF k \in {"Host", "host", "HOST"} THEN "host"
    ELSE IF k = "User-Agent" THEN "user-agent"
    ELSE k

HostValues(h) == {kv[2] : kv \in {x \in h : LowerName(x[1]) = "host"}}

(* C20 (as claimed): every request sent carries as its Host header the     *)
(* hostname of its hop's URL and nothing else, whatever headers the caller *)
(* passed, a Host header in any letter case included.                      *)
C20_HostHeaderPinned ==
    HopSent => HostValues(headers) = {current_url.host}

(* C11 (as claimed): no probe, called directly or awaited, is still        *)
(* running after the deadline, and a call that ends after the deadline     *)
(* ends with the timeout outcome.                                          *)
C11_DeadlineForEveryProbe ==
    /\ ipc = "running" => elapsed <= timeout
    /\ (ipc = "returned" /\ elapsed > timeout) => ret = Returned(TimedOut)

(* the key each registered probe owns in the aggregate *)
OwnKey ==
    {<<"DNS", "dns">>, <<"Whois", "whois">>, <<"SSL", "ssl">>,
     <<"Headers", "headers">>, <<"Tech", "tech">>,
     <<"Security Headers", "security_headers">>, <<"Subdomains", "subdomains">>,
     <<"Public Files", "public_files">>,
     <<"Directory Exposure", "directory_exposure">>,
     <<"Code Leaks", "code_leaks">>, <<"Historical", "historical">>,
     <<"Ports", "ports">>, <<"IP Intelligence", "ip_intelligence">>,
     <<"Network Footprint", "network_footprint">>}

Built == spc \in {"map", "done"}
EntriesOf(k) == {kv[2] : kv \in {x \in full_data : x[1] = k}}

C13_ScanNeverRaises ==
    /\ spc # "raised"
    /\ spc = "done" =>
         /\ EntriesOf("target") = {domain}
         /\ Cardinality(EntriesOf("attack_surface")) = 1
         /\ \A p \in OwnKey :
              /\ Cardinality(EntriesOf(p[2])) = 1
              /\ ends[p[1]].kind = "raise" =>
                   \A d \in EntriesOf(p[2]) : d.error # <<>> /\ d.data = ""

C13_Witness ==
    /\ spc = "done"
    /\ \A n \in Names : ends[n] = Raise("SafeHTTPError")
    /\ EntriesOf("attack_surface") = {MappingFailed("KeyError")}
    /\ EntriesOf("tech") = {Failed("SafeHTTPError")}
    /\ Cardinality(full_data) = 16

(* the entry a probe that ended with o is owed *)
Owed(o) ==
    IF o.kind = "value" THEN o.dict
    ELSE IF o.kind = "cancelled" \/ o.exc = "TimeoutError"
    THEN Dict(<<"Module timed out">>, "")
    ELSE Dict(<<"Module execution failed: ", o.exc>>, "")

(* C14: whatever the probes do, each is passed to run_module_safely once   *)
(* and in program order, a failure stops nothing after it, the aggregate   *)
(* holds one entry per probe under the probe's own key, the one owed to    *)
(* that probe, and no local or entry is written a second time.             *)
C14_EveryProbeOnce ==
    /\ [](/\ \A i \in 1..14 :
               invoked[Order[i]] = (IF i < scan_i THEN 1 ELSE 0)
          /\ Built =>
               /\ \A p \in OwnKey :
                    /\ invoked[p[1]] = 1
                    /\ EntriesOf(p[2]) = {Owed(ends[p[1]])}
               /\ Cardinality(full_data) = (IF spc = "map" THEN 15 ELSE 16))
    /\ [][/\ \A n \in Names : res[n] # NoEntry => res'[n] = res[n]
          /\ \A kv \in full_data : kv \in full_data']_vars

C14_Witness ==
    /\ spc = "done"
    /\ usual = Value(Dict(<<>>, "records"))
    /\ ends["Tech"] = Raise("SafeHTTPError")
    /\ invoked["Network Footprint"] = 1
    /\ EntriesOf("tech") = {Failed("SafeHTTPError")}
    /\ EntriesOf("network_footprint") = {Dict(<<>>, "records")}

(* C15 (as claimed): an awaited probe gets exactly its deadline, counted   *)
(* from its own call: it is never running later than that and its         *)
(* deadline fires neither earlier nor later, whatever other tasks of the   *)
(* event loop do.                                                          *)
C15_DeadlinesIndependent ==
    /\ (ipc = "running" /\ iscoroutinefunction(module_name)) => elapsed <= timeout
    /\ (ipc = "returned" /\ probe_end.kind = "cancelled") => elapsed = timeout

(* C16 (as claimed): a probe whose fetch failed ends with a value, never   *)
(* with an exception.                                                      *)
C16_FetchFailureStaysInProbe ==
    (ppc \in {"ended", "delivered"} /\ fetched.kind = "err") => pout.kind = "value"

(* what the caller gets for a probe whose fetch was blocked, by probe and  *)
(* by caller, with no address in it                                        *)
Denial ==
    IF probe = "analyze_headers" THEN Dict(<<"Analysis failed">>, "")
    ELSE IF probe = "check_code_leaks" THEN Dict(<<>>, "status error")
    ELSE IF probe = "check_historical_data" THEN Dict(<<>>, "results")
    ELSE IF via = "scan"
    THEN Dict(<<"Module execution failed: ", "SafeHTTPError">>, "")
    ELSE Dict(<<"SAFE_HTTP_ERROR",
                "Secure HTTP request failed (SSRF Protection or Network Error).">>, "")

BlockedFetch == fetched.kind = "err" /\ fetched.exc.addr # ""

Mentions(d, t) == d.data = t \/ \E i \in 1..Len(d.error) : d.error[i] = t

(* C17: when the fetch of a probe was blocked for a non-public address,    *)
(* what the caller receives (the entry run_module_safely makes, or the     *)
(* response of centralized_exception_handler) mentions no address and is   *)
(* the same whichever address was blocked.                                 *)
C17_BlockedAddressNotExposed ==
    (ppc = "delivered" /\ BlockedFetch) =>
        /\ \A a \in Addrs : ~Mentions(visible, Text(a))
        /\ visible = Denial

C17_Witness ==
    /\ ppc = "delivered"
    /\ BlockedFetch
    /\ fetched.exc.addr = "169.254.169.254"
    /\ probe = "check_directory_exposure"
    /\ via = "scan"
    /\ <<ErrInternal, "169.254.169.254">> \in logged
    /\ visible = Failed("SafeHTTPError")

(* the ranges C18 names, read off the octets *)
InNamedRange(ip) ==
    LET a == ip[1]  b == ip[2] IN
    \/ a = 10
    \/ a = 172 /\ b >= 16 /\ b <= 31
    \/ a = 192 /\ b = 168
    \/ a = 127
    \/ a = 169 /\ b = 254
    \/ a >= 224 /\ a <= 239
    \/ a >= 240

(* C18: _validate_ip raises SafeHTTPError for every literal in 10/8,       *)
(* 172.16/12, 192.168/16, 127/8, 169.254/16, the multicast range and the   *)
(* reserved range, and returns only for globally routable addresses.       *)
C18_ValidateIpRejectsNonGlobal ==
    vpc = "ended" =>
        /\ InNamedRange(ip_str) => verdict \in {ErrInternal, ErrNonGlobal}
        /\ verdict = "ok" => is_global(ip_str) /\ ~InNamedRange(ip_str)

C18_Witness ==
    /\ vpc = "ended"
    /\ ip_str = <<172, 31, 0, 255>>
    /\ verdict = ErrInternal

C18_WitnessShared ==
    /\ vpc = "ended"
    /\ ip_str = <<100, 127, 0, 1>>
    /\ verdict = ErrNonGlobal

-----------------------------------------------------------------------------
(* C22: every attempt after a failed one starts from the caller's URL with *)
(* the full redirect budget: the budget consumed in an attempt equals the  *)
(* redirects followed in that attempt alone, the first hop of every        *)
(* attempt is the caller's URL, and each request of an attempt follows a   *)
(* resolution made in that attempt for that hop.                           *)
C22_RetryRestartsAfresh ==
    /\ [](pc = "loop" => nreq = Followed)
    /\ []((pc \in {"loop", "send"} /\ nreq = 0) =>
             current_url = url /\ redirects_left = MAX_REDIRECTS)
    /\ [](pc = "send" => nres = nreq + 1 /\ nresolve = 1)
    /\ [][pc = "attempt" =>
             /\ pc' = "loop"
             /\ current_url' = url
             /\ redirects_left' = MAX_REDIRECTS
             /\ target_ip' = NoAddr /\ conn_ip' = NoAddr]_vars

(* the second attempt at its first request, the first attempt having sent  *)
(* three requests (two redirects followed) before it failed                *)
C22_Witness ==
    /\ attempt = 1
    /\ pc = "send"
    /\ nreq = 0
    /\ nsent = 3
    /\ current_url = url
    /\ redirects_left = MAX_REDIRECTS
    /\ url = U("https", "a.test", "/")
    /\ target_ip = PublicB

(* C24: at every point of the body read the chunks kept total at most      *)
(* MAX_RESPONSE_SIZE, and what a returned result carries was decoded from  *)
(* the chunks kept, so from at most MAX_RESPONSE_SIZE bytes, whatever the  *)
(* response sent.                                                          *)
C24_BufferWithinCap ==
    /\ Sum(content_chunks) <= MAX_RESPONSE_SIZE
    /\ Sum(content_chunks) <= total_size
    /\ Len(content_chunks) <= body_read
    /\ \A i \in 1..Len(content_chunks) : content_chunks[i] <= MAX_RESPONSE_SIZE
    /\ result.kind = "ok" =>
         /\ result.content_len = Sum(content_chunks)
         /\ result.content_len <= MAX_RESPONSE_SIZE

(* a body of exactly MAX_RESPONSE_SIZE bytes is kept whole and returned *)
C24_Witness ==
    /\ result.kind = "ok"
    /\ total_size = MAX_RESPONSE_SIZE
    /\ result.content_len = MAX_RESPONSE_SIZE
    /\ body_read = 1

(* C27: safe_request ends in one of two ways: it returns the dict of a     *)
(* response (a status, content and the request URL, no error text), or     *)
(* SafeHTTPError leaves it; no other exception class leaves it, whether    *)
(* the parse, the resolution, the request or the body read failed.         *)
C27_TwoKindsOfExit ==
    /\ pc = "done" =>
         \/ /\ result.kind = "ok"
            /\ escaped = "none"
            /\ result.msg = ""
            /\ result.status # 0
            /\ result.url = RequestUrl(current_url, target_ip)
         \/ /\ result.kind = "err"
            /\ escaped = "SafeHTTPError"
            /\ result.msg # ""
    /\ pc # "done" => result.kind = "none" /\ escaped = "none"
    /\ escaped \in {"none", "SafeHTTPError"}

(* the URL of a redirect does not parse: the ValueError of urlparse leaves *)
(* safe_request as a SafeHTTPError                                         *)
C27_Witness ==
    /\ pc = "done"
    /\ raised = "ValueError"
    /\ escaped = "SafeHTTPError"
    /\ result = Err(ErrParse)
    /\ Followed = 1

(* C28: a call of safe_request sends at most retries * (MAX_REDIRECTS + 1) *)
(* = 12 requests, at most MAX_REDIRECTS + 1 in each of at most 3 attempts, *)
(* and it ends: a measure that is a natural number falls with every step,  *)
(* whatever the network answers.                                           *)
HopRank ==
    IF pc = "attempt" THEN (MAX_REDIRECTS + 2) * (MaxChunks + 5)
    ELSE IF pc = "sleep" THEN 0
    ELSE (redirects_left + 1) * (MaxChunks + 5)
         + (IF pc = "loop" THEN MaxChunks + 4
            ELSE IF pc = "send" THEN MaxChunks + 3
            ELSE IF pc = "read" THEN 2 + (MaxChunks - body_read)
            ELSE 1)
Rank ==
    IF pc = "done" THEN 0
    ELSE (retries - attempt) * ((MAX_REDIRECTS + 2) * (MaxChunks + 5) + 1) + HopRank

C28_EndsWithinTwelveRequests ==
    /\ [](nsent <= retries * (MAX_REDIRECTS + 1))
    /\ [](nsent <= 12)
    /\ [](nsent <= attempt * (MAX_REDIRECTS + 1) + nreq)
    /\ [](nreq <= MAX_REDIRECTS + 1 /\ attempt < retries)
    /\ [](Rank \in Nat)
    /\ [](pc # "done" => Rank > 0)
    /\ [][Rank' < Rank]_vars

(* three attempts of four requests each: the server redirects every time   *)
(* and the fourth request of every attempt fails                           *)
C28_Witness ==
    /\ pc = "done"
    /\ nsent = 12
    /\ attempt = retries - 1
    /\ result = Err(ErrAfterRetries)

(* C29: a SafeHTTPError raised inside safe_request (an address that is not *)
(* public, a URL without hostname, the redirect budget exceeded) ends the  *)
(* call in the step that raises it, in whichever attempt and hop: no       *)
(* backoff sleep, no resolution and no request follow it.                  *)
C29_ValidationFailureEndsFetch ==
    /\ [](raised = "SafeHTTPError" =>
             /\ pc = "done"
             /\ result.kind = "err"
             /\ result.msg # ErrAfterRetries
             /\ Len(sleeps) = attempt)
    /\ [](result.msg \in {ErrInternal, ErrNonGlobal, ErrNoHost, ErrMaxRedirects} =>
             raised = "SafeHTTPError" /\ pc = "done")
    /\ [][raised' = "SafeHTTPError" =>
             /\ pc' = "done"
             /\ sleeps' = sleeps
             /\ nreq' = nreq
             /\ attempt' = attempt]_vars
    /\ [][raised = "SafeHTTPError" => UNCHANGED vars]_vars

(* the third attempt, on the hop after two redirects, resolves to a        *)
(* shared-space address                                                    *)
C29_Witness ==
    /\ raised = "SafeHTTPError"
    /\ result = Err(ErrNonGlobal)
    /\ attempt = 2
    /\ Followed = 2
    /\ sleeps = <<1, 2>>
    /\ pc = "done"
-----------------------------------------------------------------------------
(* C21 (as claimed): every connection a probe of the full scan opens to    *)
(* the caller-supplied host is opened by safe_request and goes to an       *)
(* address that passed _validate_ip.                                       *)
C21_TargetReachedThroughFetchClient ==
    (conn.peer = "target" /\ conn.to # NoAddr) =>
        /\ conn.by = "safe_request"
        /\ validate_ip(conn.to) = "ok"

(* C23 (as claimed): when the fetch of https://<domain> fails,             *)
(* get_tech_fingerprint and analyze_security_headers fetch http://<domain> *)
(* next, and end with their error payload, after both fetches failed.      *)
C23_HttpFetchedAfterHttpsFails ==
    (probe \in Fallbacks /\ ppc # "fetching" /\ fetched.kind = "err") =>
        /\ fetch_k = 2
        /\ pout = PValue(CouldNotFetch)

(* C25 (as claimed): the checks of scan_ports run concurrently: while one  *)
(* connection attempt is in flight, the attempt for every other port has   *)
(* begun as well.                                                          *)
C25_PortChecksInFlightTogether ==
    running # {} =>
        \A i \in 1..Len(TOP_PORTS) :
            TOP_PORTS[i] \in running \/ i < port_i

C30_ValidatorsAgree ==
    (tpc = "ended" /\ vpc = "ended"
     /\ accepted = ValidationResult(TRUE, "ipv4", TRUE)) =>
        verdict = "ok"
====
